---- MODULE Spec2Model ----
(***************************************************************************)
(* A model of the parfun partitioning generators (partition/dataframe.py)  *)
(* and of the scatter-gather controller ParallelFunction                   *)
(* (kernel/parallel_function.py).                                          *)
(*                                                                         *)
(* Five specifications share the module:                                   *)
(*   SpecRow    the df_by_row generator driven by an arbitrary consumer    *)
(*   SpecGroup  the df_by_group generator driven by an arbitrary consumer  *)
(*   SpecCo     either generator, made of arbitrary dataframes             *)
(*   SpecNew    the construction of a ParallelFunction object              *)
(*   Spec       invocations of one ParallelFunction object                 *)
(***************************************************************************)
EXTENDS Integers, Sequences, FiniteSets, TLC

\* ------------------------------------------------------------------ bounds
\* Largest number of rows of a dataframe.
MaxRows == 3
\* Largest number of dataframes handed to a generator.
MaxDfs == 2
\* Largest partition size a consumer requests (above MaxRows on purpose).
MaxSize == 4

\* The values of the grouping column, in groupby's sorted order.
KeyOrder == <<"a", "b">>
Keys == {KeyOrder[i] : i \in 1..Len(KeyOrder)}

\* ------------------------------------------------------------- dataframes
\* A dataframe is a sequence of rows; a row keeps its index label (the
\* RangeIndex position it had in the input) and its grouping key.
Frame(keys) == [i \in 1..Len(keys) |-> [idx |-> i - 1, key |-> keys[i]]]

SeqsUpTo(S, n) == UNION {[1..k -> S] : k \in 0..n}

\* df.shape[0]
shape0(df) == Len(df)

Min(a, b) == IF a < b THEN a ELSE b

\* df.iloc[a:b] for 0 <= a, 0 <= b: positions a .. b-1, clipped to the frame.
iloc(df, a, b) == SubSeq(df, a + 1, Min(b, Len(df)))

RECURSIVE SumSeq(_)
SumSeq(s) == IF s = <<>> THEN 0 ELSE s[1] + SumSeq(Tail(s))

RECURSIVE ConcatAll(_)
ConcatAll(ss) == IF ss = <<>> THEN <<>> ELSE ss[1] \o ConcatAll(Tail(ss))

\* __validate_dfs_parameter: "ok" or the ValueError it raises.  (Every value
\* of dfs in the model is a dataframe, so the isinstance test never fails.)
validate_dfs_parameter_rows_unchecked(fs) ==
    IF Len(fs) < 1 THEN "missing" ELSE "ok"

validate_dfs_parameter(fs) ==
    IF Len(fs) < 1 THEN "missing"
    ELSE IF \E i \in 2..Len(fs) : shape0(fs[i]) # shape0(fs[1]) THEN "rows_differ"
    ELSE "ok"

\* ---------------------------------------------------------------- df_by_row
\* The generator object of df_by_row.  at is where it is suspended:
\*   "new"  created, body not started      "L50" at `chunk_size = yield`
\*   "L59"  at the yield inside the loop   "L65" at the final yield
\*   "done" returned (StopIteration)       "error" raised ValueError
NewRowGen ==
    [at |-> "new", chunk_size |-> 0, range_start |-> 0, range_end |-> 0,
     total_size |-> 0]

\* dfs_chunk(rng_start, rng_end)
dfs_chunk_short(fs, rng_start, rng_end) ==
    [d \in 1..Len(fs) |-> iloc(fs[d], rng_start, rng_end - 1)]

dfs_chunk(fs, rng_start, rng_end) ==
    [d \in 1..Len(fs) |-> iloc(fs[d], rng_start, rng_end)]

\* Lines 58-65 from the loop test on: the next yield, or the return.
row_loop_full_last(g, fs) ==
    IF g.range_end < g.total_size
    THEN [gen |-> [g EXCEPT !.at = "L59"],
          out |-> <<[actual_size |-> g.chunk_size,
                     payload |-> dfs_chunk(fs, g.range_start, g.range_end)]>>]
    ELSE IF g.range_start < g.total_size
    THEN [gen |-> [g EXCEPT !.at = "L65"],
          out |-> <<[actual_size |-> g.chunk_size,
                     payload |-> dfs_chunk(fs, g.range_start, g.total_size)]>>]
    ELSE [gen |-> [g EXCEPT !.at = "done"], out |-> <<>>]

row_loop_always_last(g, fs) ==
    IF g.range_end < g.total_size
    THEN [gen |-> [g EXCEPT !.at = "L59"],
          out |-> <<[actual_size |-> g.chunk_size,
                     payload |-> dfs_chunk(fs, g.range_start, g.range_end)]>>]
    ELSE [gen |-> [g EXCEPT !.at = "L65"],
          out |-> <<[actual_size |-> g.total_size - g.range_start,
                     payload |-> dfs_chunk(fs, g.range_start, g.total_size)]>>]

row_loop(g, fs) ==
    IF g.range_end < g.total_size
    THEN [gen |-> [g EXCEPT !.at = "L59"],
          out |-> <<[actual_size |-> g.chunk_size,
                     payload |-> dfs_chunk(fs, g.range_start, g.range_end)]>>]
    ELSE IF g.range_start < g.total_size
    THEN [gen |-> [g EXCEPT !.at = "L65"],
          out |-> <<[actual_size |-> g.total_size - g.range_start,
                     payload |-> dfs_chunk(fs, g.range_start, g.total_size)]>>]
    ELSE [gen |-> [g EXCEPT !.at = "done"], out |-> <<>>]

\* next(generator) on a new generator: lines 48-50.
df_by_row_prime(g, fs) ==
    IF validate_dfs_parameter(fs) # "ok"
    THEN [g EXCEPT !.at = "error"]
    ELSE [g EXCEPT !.at = "L50"]

\* generator.send(value) on a suspended generator: runs to the next yield or
\* to the return.
df_by_row_send_stale_start(g, fs, value) ==
    CASE g.at = "L50" ->
           row_loop([g EXCEPT !.chunk_size = value,
                              !.total_size = shape0(fs[1]),
                              !.range_start = 0,
                              !.range_end = value], fs)
      [] g.at = "L59" ->
           row_loop([g EXCEPT !.chunk_size = value,
                              !.range_start = g.range_end,
                              !.range_end = g.range_start + value], fs)
      [] g.at = "L65" -> [gen |-> [g EXCEPT !.at = "done"], out |-> <<>>]

df_by_row_send_no_advance(g, fs, value) ==
    CASE g.at = "L50" ->
           row_loop([g EXCEPT !.chunk_size = value,
                              !.total_size = shape0(fs[1]),
                              !.range_start = 0,
                              !.range_end = value], fs)
      [] g.at = "L59" ->
           row_loop([g EXCEPT !.chunk_size = value,
                              !.range_start = g.range_end], fs)
      [] g.at = "L65" -> [gen |-> [g EXCEPT !.at = "done"], out |-> <<>>]

df_by_row_send(g, fs, value) ==
    CASE g.at = "L50" ->
           row_loop([g EXCEPT !.chunk_size = value,
                              !.total_size = shape0(fs[1]),
                              !.range_start = 0,
                              !.range_end = value], fs)
      [] g.at = "L59" ->
           row_loop([g EXCEPT !.chunk_size = value,
                              !.range_start = g.range_end,
                              !.range_end = g.range_end + value], fs)
      [] g.at = "L65" -> [gen |-> [g EXCEPT !.at = "done"], out |-> <<>>]

Suspended(g) == g.at \in {"L50", "L59", "L65"}

\* -------------------------------------------------------------- df_by_group
\* df.groupby(by) with the default sort=True: one group per key present in
\* the frame, in key order, each holding the frame's rows of that key in
\* their original order.
RECURSIVE groupby_from(_, _)
groupby_from(df, i) ==
    IF i > Len(KeyOrder) THEN <<>>
    ELSE LET g == SelectSeq(df, LAMBDA row : row.key = KeyOrder[i])
         IN (IF g = <<>> THEN <<>> ELSE <<g>>) \o groupby_from(df, i + 1)

groupby(df) == groupby_from(df, 1)

MinOver(S) == CHOOSE x \in S : \A y \in S : x <= y

\* zip(*(groups of df for df in dfs)): the i-th element pairs the i-th
\* groups of all dataframes; it stops with the shortest group list.
zip_groups(fs) ==
    LET n == MinOver({Len(groupby(fs[d])) : d \in 1..Len(fs)})
    IN [i \in 1..n |-> [d \in 1..Len(fs) |-> groupby(fs[d])[i]]]

\* The generator object of df_by_group(...)(*dfs).  at is where it is
\* suspended:
\*   "new"   created, body not started     "L109" at `target_chunk_size = yield`
\*   "L131"  at the yield inside the loop  "L137" at the yield after the groups
\*   "done"  returned (StopIteration)      "error" raised ValueError
\* it counts the groups already taken from the iterator.
NewGroupGen ==
    [at |-> "new", it |-> 0, chunked_group |-> <<>>, chunked_group_size |-> 0,
     target_chunk_size |-> 0]

\* tuple([] for _ in range(0, len(dfs)))
empty_chunked_group(fs) == [d \in 1..Len(fs) |-> <<>>]

\* concat_chunked_group_dfs
concat_chunked_group_dfs(chunked_group) ==
    [d \in 1..Len(chunked_group) |-> ConcatAll(chunked_group[d])]

\* Lines 114-139, one turn of `while True` after another, up to the next
\* yield, the return or the ValueError.
RECURSIVE group_loop_strict(_, _)
group_loop_strict(g, groups) ==
    IF g.it >= Len(groups)
    THEN IF g.chunked_group_size > 0
         THEN [gen |-> [g EXCEPT !.at = "L137"],
               out |-> <<[actual_size |-> g.chunked_group_size,
                          payload |-> concat_chunked_group_dfs(g.chunked_group)]>>]
         ELSE [gen |-> [g EXCEPT !.at = "done"], out |-> <<>>]
    ELSE LET group == groups[g.it + 1]
             group_size == shape0(group[1])
             g1 == [g EXCEPT
                      !.it = g.it + 1,
                      !.chunked_group_size = g.chunked_group_size + group_size,
                      !.chunked_group =
                          [d \in 1..Len(group) |-> Append(g.chunked_group[d], group[d])]]
         IN IF \E d \in 2..Len(group) : shape0(group[d]) # group_size
            THEN [gen |-> [g EXCEPT !.at = "error", !.it = g.it + 1], out |-> <<>>]
            ELSE IF g1.chunked_group_size > g1.target_chunk_size
            THEN [gen |-> [g1 EXCEPT !.at = "L131"],
                  out |-> <<[actual_size |-> g1.chunked_group_size,
                             payload |-> concat_chunked_group_dfs(g1.chunked_group)]>>]
            ELSE group_loop_strict(g1, groups)

RECURSIVE group_loop_no_flush(_, _)
group_loop_no_flush(g, groups) ==
    IF g.it >= Len(groups)
    THEN [gen |-> [g EXCEPT !.at = "done"], out |-> <<>>]
    ELSE LET group == groups[g.it + 1]
             group_size == shape0(group[1])
             g1 == [g EXCEPT
                      !.it = g.it + 1,
                      !.chunked_group_size = g.chunked_group_size + group_size,
                      !.chunked_group =
                          [d \in 1..Len(group) |-> Append(g.chunked_group[d], group[d])]]
         IN IF \E d \in 2..Len(group) : shape0(group[d]) # group_size
            THEN [gen |-> [g EXCEPT !.at = "error", !.it = g.it + 1], out |-> <<>>]
            ELSE IF g1.chunked_group_size >= g1.target_chunk_size
            THEN [gen |-> [g1 EXCEPT !.at = "L131"],
                  out |-> <<[actual_size |-> g1.chunked_group_size,
                             payload |-> concat_chunked_group_dfs(g1.chunked_group)]>>]
            ELSE group_loop_no_flush(g1, groups)

RECURSIVE group_loop(_, _)
group_loop(g, groups) ==
    IF g.it >= Len(groups)
    THEN IF g.chunked_group_size > 0
         THEN [gen |-> [g EXCEPT !.at = "L137"],
               out |-> <<[actual_size |-> g.chunked_group_size,
                          payload |-> concat_chunked_group_dfs(g.chunked_group)]>>]
         ELSE [gen |-> [g EXCEPT !.at = "done"], out |-> <<>>]
    ELSE LET group == groups[g.it + 1]
             group_size == shape0(group[1])
             g1 == [g EXCEPT
                      !.it = g.it + 1,
                      !.chunked_group_size = g.chunked_group_size + group_size,
                      !.chunked_group =
                          [d \in 1..Len(group) |-> Append(g.chunked_group[d], group[d])]]
         IN IF \E d \in 2..Len(group) : shape0(group[d]) # group_size
            THEN [gen |-> [g EXCEPT !.at = "error", !.it = g.it + 1], out |-> <<>>]
            ELSE IF g1.chunked_group_size >= g1.target_chunk_size
            THEN [gen |-> [g1 EXCEPT !.at = "L131"],
                  out |-> <<[actual_size |-> g1.chunked_group_size,
                             payload |-> concat_chunked_group_dfs(g1.chunked_group)]>>]
            ELSE group_loop(g1, groups)

\* next(generator) on a new generator: lines 98-109.
df_by_group_prime(g, fs) ==
    IF validate_dfs_parameter(fs) # "ok"
    THEN [g EXCEPT !.at = "error"]
    ELSE [g EXCEPT !.at = "L109", !.chunked_group = empty_chunked_group(fs)]

\* generator.send(value) on a suspended generator.
df_by_group_send_keep_chunk(g, fs, value) ==
    CASE g.at = "L109" ->
           group_loop([g EXCEPT !.target_chunk_size = value], zip_groups(fs))
      [] g.at = "L131" ->
           group_loop([g EXCEPT !.target_chunk_size = value], zip_groups(fs))
      [] g.at = "L137" -> [gen |-> [g EXCEPT !.at = "done"], out |-> <<>>]

df_by_group_send(g, fs, value) ==
    CASE g.at = "L109" ->
           group_loop([g EXCEPT !.target_chunk_size = value], zip_groups(fs))
      [] g.at = "L131" ->
           group_loop([g EXCEPT !.target_chunk_size = value,
                                !.chunked_group = empty_chunked_group(fs),
                                !.chunked_group_size = 0], zip_groups(fs))
      [] g.at = "L137" -> [gen |-> [g EXCEPT !.at = "done"], out |-> <<>>]

GroupSuspended(g) == g.at \in {"L109", "L131", "L137"}

\* ------------------------------------------------ ParallelFunction.__init__
\* Largest number of parameters of a wrapped function.
MaxParams == 3

\* inspect.Parameter kinds, in the order Python lets a signature declare them.
KindOrder ==
    <<"POSITIONAL_ONLY", "POSITIONAL_OR_KEYWORD", "VAR_POSITIONAL",
      "KEYWORD_ONLY", "VAR_KEYWORD">>
Kinds == {KindOrder[i] : i \in 1..Len(KindOrder)}
KindRank(k) == CHOOSE i \in 1..Len(KindOrder) : KindOrder[i] = k

\* The signatures Python accepts: kinds in declaration order, at most one
\* *args and at most one **kwargs.
Signatures ==
    {sig \in SeqsUpTo(Kinds, MaxParams) :
        /\ \A i \in 1..(Len(sig) - 1) : KindRank(sig[i]) <= KindRank(sig[i + 1])
        /\ \A i, j \in 1..Len(sig) :
              (i # j /\ sig[i] = sig[j]) =>
                  sig[i] \notin {"VAR_POSITIONAL", "VAR_KEYWORD"}}

\* FunctionSignature.from_function: the named parameters args (everything
\* but *args and **kwargs) and the two flags.  _validate_function_signature
\* reads args for POSITIONAL_ONLY parameters, so from_function keeps them.
from_function(sig) ==
    [args |-> SelectSeq(sig, LAMBDA k : k \notin {"VAR_POSITIONAL", "VAR_KEYWORD"}),
     has_var_arg |-> \E i \in 1..Len(sig) : sig[i] = "VAR_POSITIONAL",
     has_var_kwarg |-> \E i \in 1..Len(sig) : sig[i] = "VAR_KEYWORD"]

\* _validate_function_signature: TRUE when it raises.
validate_function_signature(fsig) ==
    IF fsig.has_var_arg \/ fsig.has_var_kwarg THEN FALSE
    ELSE \E i \in 1..Len(fsig.args) : fsig.args[i] = "POSITIONAL_ONLY"

\* A partition size option: None, an integer, a callable of the arguments
\* (here one that returns `value`), or a value of another type.
SizeValues == {1, 2}
NoSize == [kind |-> "none", value |-> 0]
SizeOptions ==
    {NoSize, [kind |-> "other", value |-> 0]}
        \cup [kind : {"int", "callable"}, value : SizeValues]

\* The PartitionSizeEstimator a factory returns: no observation yet, no size
\* requested yet.
NewEstimator == [nobs |-> 0, last |-> 0]
NoEstimator == [nobs |-> -1, last |-> 0]

NoObject ==
    [error |-> "none", built |-> FALSE, signature |-> from_function(<<>>),
     initial_partition_size |-> NoSize, fixed_partition_size |-> NoSize,
     estimator |-> NoEstimator]

\* _partition_size_validator
partition_size_validator(value) == value.kind = "other"

\* _legacy_partition_size: a callable size is wrapped in a callable of the
\* keyword arguments that returns what the wrapped one returns; None, an
\* integer or a value of another type is handed on as it is.
legacy_partition_size(partition_size) ==
    IF partition_size.kind # "callable" THEN partition_size
    ELSE [kind |-> "callable", value |-> partition_size.value]

\* ParallelFunction.__init__(function, split=, partition_on=,
\* partition_with=, initial_partition_size=, fixed_partition_size=): the
\* object, or the first error raised.
ParallelFunction_init_fixed_wins(a) ==
    LET fail(e) == [NoObject EXCEPT !.error = e]
        fsig == from_function(a.sig)
        initial == IF a.partition_on THEN legacy_partition_size(a.initial)
                   ELSE a.initial
        fixed == IF a.partition_on THEN legacy_partition_size(a.fixed)
                 ELSE a.fixed
    IN IF a.partition_on # a.partition_with THEN fail("partition_on_with")
       ELSE IF a.partition_on /\ a.split THEN fail("split_with_legacy")
       ELSE IF partition_size_validator(initial) THEN fail("initial_type")
       ELSE IF partition_size_validator(fixed) THEN fail("fixed_type")
       ELSE IF validate_function_signature(fsig) THEN fail("positional_only")
       ELSE [error |-> "none", built |-> TRUE, signature |-> fsig,
             initial_partition_size |-> initial,
             fixed_partition_size |-> fixed,
             estimator |-> IF fixed.kind = "none" THEN NewEstimator
                           ELSE NoEstimator]

ParallelFunction_init(a) ==
    LET fail(e) == [NoObject EXCEPT !.error = e]
        fsig == from_function(a.sig)
        initial == IF a.partition_on THEN legacy_partition_size(a.initial)
                   ELSE a.initial
        fixed == IF a.partition_on THEN legacy_partition_size(a.fixed)
                 ELSE a.fixed
    IN IF a.partition_on # a.partition_with THEN fail("partition_on_with")
       ELSE IF a.partition_on /\ a.split THEN fail("split_with_legacy")
       ELSE IF partition_size_validator(initial) THEN fail("initial_type")
       ELSE IF partition_size_validator(fixed) THEN fail("fixed_type")
       ELSE IF initial.kind # "none" /\ fixed.kind # "none"
       THEN fail("both_sizes")
       ELSE IF validate_function_signature(fsig) THEN fail("positional_only")
       ELSE [error |-> "none", built |-> TRUE, signature |-> fsig,
             initial_partition_size |-> initial,
             fixed_partition_size |-> fixed,
             estimator |-> IF fixed.kind = "none" THEN NewEstimator
                           ELSE NoEstimator]

NewInputs ==
    [sig : Signatures, split : BOOLEAN, partition_on : BOOLEAN,
     partition_with : BOOLEAN, initial : SizeOptions, fixed : SizeOptions]

\* ------------------------------------------- ParallelFunction.__call__: parts
\* The ambient backend: None, or a backend whose allows_nested_tasks() is
\* False ("nonnesting") or True ("nesting").
Backends == {"none", "nonnesting", "nesting"}
allows_nested_tasks(backend) == backend = "nesting"

\* A call stack, innermost frame last.
MainStack == <<"main">>
TaskStack == <<"worker", "apply_function", "function">>

\* is_nested_parallelism(): walks the frames from the current one outwards
\* and looks for a frame of apply_function.
RECURSIVE frame_walk(_, _)
frame_walk(stk, i) ==
    IF i = 0 THEN FALSE
    ELSE IF stk[i] = "apply_function" THEN TRUE
    ELSE frame_walk(stk, i - 1)

is_nested_parallelism_never(stk) == FALSE

is_nested_parallelism(stk) == frame_walk(stk, Len(stk))

\* Lines 111-124 of __call__: which way the invocation goes.
call_path_no_backend_test(current_backend, stk) ==
    LET allows == current_backend # "none" /\ allows_nested_tasks(current_backend)
    IN IF is_nested_parallelism(stk) /\ ~allows THEN "sequential"
       ELSE "parallel"

call_path(current_backend, stk) ==
    LET allows == current_backend # "none" /\ allows_nested_tasks(current_backend)
    IN IF is_nested_parallelism(stk) /\ ~allows THEN "sequential"
       ELSE IF current_backend = "none" THEN "sequential"
       ELSE "parallel"

\* The value of the non-partitioned argument of every call.
NP == "c"

\* The user function is pure: its result is a term over its arguments.
function(non_partitioned, frames) == [np |-> non_partitioned, part |-> frames]

\* The combiner: a term over the results it was given, in the order given.
combine_with(results) == [combined |-> results]

\* NamedArguments.merge
merge(non_partitioned_args, partitioned_args) ==
    [np |-> non_partitioned_args, part |-> partitioned_args]

\* apply_function(function, non_partitioned_args, partition, backend): the
\* result of the user function on the merged arguments.
apply_function_partition_only(non_partitioned_args, partitioned_args) ==
    function("", partitioned_args)

apply_function(non_partitioned_args, partitioned_args) ==
    LET merged_args == merge(non_partitioned_args, partitioned_args)
    IN function(merged_args.np, merged_args.part)

\* _get_user_partition_sizes: the two sizes for these arguments, 0 for None.
get_user_partition_sizes_swapped(o) ==
    [initial |-> o.fixed_partition_size.value,
     fixed |-> o.initial_partition_size.value]

get_user_partition_sizes(o) ==
    [initial |-> o.initial_partition_size.value,
     fixed |-> o.fixed_partition_size.value]

\* The estimator __call__ hands to timed_partition and timed_combine_with:
\* self._partition_size_estimator, the one made by __init__.
stage_estimator_fresh(o) ==
    IF o.estimator = NoEstimator THEN NoEstimator ELSE NewEstimator

stage_estimator(o) == o.estimator

\* Leaving the `with current_backend.session()` block of lines 134-164, by
\* falling off its end or by an exception: the session is closed.
with_exit_leaky(sess, err) ==
    IF err # "none" THEN sess
    ELSE [sess EXCEPT !.state = "closed", !.closed = sess.closed + 1]

with_exit_no_close(sess, err) == sess

with_exit(sess, err) ==
    [sess EXCEPT !.state = "closed", !.closed = sess.closed + 1]

NoSession == [state |-> "none", opened |-> 0, closed |-> 0]

\* ------------------------------------------------ estimator (cold start)
\* Observations needed before the regression is used.
ColdStartK == 3

Max(a, b) == IF a > b THEN a ELSE b
Clamp(x, remaining) == Max(1, Min(x, remaining))

\* next_size(remaining): the sizes the estimator may recommend.  Cold start
\* doubles the last requested size, from 1; afterwards the regression over
\* the measured durations may give any size up to the remaining input.
next_size(e, remaining) ==
    IF e.nobs < ColdStartK
    THEN {Clamp(IF e.last = 0 THEN 1 ELSE 2 * e.last, remaining)}
    ELSE 1..Max(1, remaining)

\* observe(size, duration)
observe(e) == [e EXCEPT !.nobs = e.nobs + 1]

\* The size timed_partition requests for the next partition.
request_sizes(sz, e, first, remaining) ==
    IF sz.fixed # 0 THEN {sz.fixed}
    ELSE IF sz.initial # 0 /\ first THEN {sz.initial}
    ELSE next_size(e, remaining)

\* ------------------------------------------------------------------- state
VARIABLES
    dfs,        \* the dataframes given to the generator
    gen,        \* the df_by_row generator object
    grp,        \* the df_by_group generator object
    sent,       \* history: the sizes sent to the generator, in order
    yielded,    \* history: the (actual_size, payload) pairs it yielded
    newArgs,    \* the arguments of ParallelFunction(...)
    obj,        \* the ParallelFunction object, or the error of its __init__
    calls,      \* invocations of the object started so far
    pc,         \* where the current invocation of __call__ is
    path,       \* "sequential" or "parallel": the way lines 111-124 chose
    ambient,    \* get_parallel_backend() in the caller's context
    stack,      \* the caller's call stack
    session,    \* the backend session of the invocation
    sizes,      \* (initial, fixed) partition sizes of the invocation
    nested_backend, \* the backend handed to apply_function
    wdefault,   \* the ambient backend a worker has before a task sets one
    tasks,      \* the tasks submitted to the session, in submission order
    combined,   \* the results handed to the combiner, in order
    result,     \* what __call__ returned
    error,      \* the exception that aborted the invocation
    count,      \* per invocation: calls of function, assign, split,
                \* preload_value, combine_with
    observed,   \* history: observations fed to the estimator, all invocations
    outOfOrder  \* history: a task finished before an earlier one

genVars == <<dfs, gen, grp, sent, yielded>>
newVars == <<newArgs, obj>>
callVars ==
    <<calls, pc, path, ambient, stack, session, sizes, nested_backend, wdefault,
      tasks, combined, result, error, count, observed, outOfOrder>>
vars == <<genVars, newVars, callVars>>

NoCount ==
    [function |-> 0, assign |-> 0, split |-> 0, preload_value |-> 0,
     combine_with |-> 0]

\* Nothing of an invocation exists.
NoInvocation ==
    /\ pc = "idle"
    /\ path = "none"
    /\ ambient = "none"
    /\ stack = MainStack
    /\ session = NoSession
    /\ sizes = [initial |-> 0, fixed |-> 0]
    /\ nested_backend = "none"
    /\ wdefault = "none"
    /\ tasks = <<>>
    /\ combined = <<>>
    /\ result = "none"
    /\ error = "none"
    /\ count = NoCount
    /\ outOfOrder = FALSE

\* No invocation yet.
InitCallVars ==
    /\ calls = 0
    /\ observed = 0
    /\ NoInvocation

\* The object the generator specifications leave untouched.
DefaultNewArgs ==
    [sig |-> <<"POSITIONAL_OR_KEYWORD">>, split |-> TRUE, partition_on |-> FALSE,
     partition_with |-> FALSE, initial |-> NoSize, fixed |-> NoSize]

\* ------------------------------------------------- SpecRow: df_by_row alone
\* The dataframes of SpecRow carry one key: df_by_row never reads the key.
RowFrames == {Frame([i \in 1..n |-> KeyOrder[1]]) : n \in 0..MaxRows}

InitRow ==
    /\ dfs \in SeqsUpTo(RowFrames, MaxDfs)
    /\ gen = NewRowGen
    /\ grp = NewGroupGen
    /\ sent = <<>>
    /\ yielded = <<>>
    /\ newArgs = DefaultNewArgs
    /\ obj = ParallelFunction_init(DefaultNewArgs)
    /\ InitCallVars

\* The consumer primes the generator: next(generator).
RowPrime ==
    /\ gen.at = "new"
    /\ gen' = df_by_row_prime(gen, dfs)
    /\ UNCHANGED <<dfs, grp, sent, yielded, newVars, callVars>>

\* The consumer requests a partition of `size` rows: generator.send(size).
RowSend(size) ==
    /\ Suspended(gen)
    /\ LET r == df_by_row_send(gen, dfs, size)
       IN /\ gen' = r.gen
          /\ yielded' = yielded \o r.out
    /\ sent' = Append(sent, size)
    /\ UNCHANGED <<dfs, grp, newVars, callVars>>

NextRow ==
    \/ RowPrime
    \/ \E size \in 1..MaxSize : RowSend(size)

SpecRow == InitRow /\ [][NextRow]_vars

\* ------------------------------------------------ properties of df_by_row
\* The rows of dataframe d delivered so far, in the order yielded.
RowsDelivered(d) ==
    ConcatAll([k \in 1..Len(yielded) |-> yielded[k].payload[d]])

ActualSizes == [k \in 1..Len(yielded) |-> yielded[k].actual_size]

\* C1: partition cover for df_by_row.  At every point of the protocol the
\* payloads yielded so far, concatenated, are exactly the first
\* sum(actual_size) rows of each dataframe (consecutive, non-overlapping row
\* ranges starting at row 0), and at end-of-stream they are the whole
\* dataframe: sum(actual_size) = n and every row appears exactly once.
C1_PartitionCoverRow ==
    (gen.at \in {"L59", "L65", "done"}) =>
        /\ \A d \in 1..Len(dfs) :
              RowsDelivered(d) = SubSeq(dfs[d], 1, SumSeq(ActualSizes))
        /\ SumSeq(ActualSizes) <= shape0(dfs[1])
        /\ gen.at = "done" =>
              /\ SumSeq(ActualSizes) = shape0(dfs[1])
              /\ \A d \in 1..Len(dfs) : RowsDelivered(d) = dfs[d]

\* C1 witness: two dataframes of three rows, delivered whole in at least two
\* partitions.
C1_Witness ==
    /\ gen.at = "done"
    /\ Len(dfs) = 2
    /\ shape0(dfs[1]) = 3
    /\ Len(yielded) >= 2

\* C2: size bound for df_by_row.  The k-th partition answers the k-th size
\* sent; its actual_size is between 1 and that size, and every dataframe
\* slice of its payload has exactly actual_size rows.
C2_SizeBoundRow ==
    /\ Len(yielded) <= Len(sent)
    /\ gen.at \in {"L59", "L65"} => Len(yielded) = Len(sent)
    /\ \A k \in 1..Len(yielded) :
          /\ 1 <= yielded[k].actual_size
          /\ yielded[k].actual_size <= sent[k]
          /\ \A d \in 1..Len(dfs) :
                shape0(yielded[k].payload[d]) = yielded[k].actual_size

\* C2 witness: a partition smaller than the size requested for it, after a
\* partition of exactly the requested size.
C2_Witness ==
    /\ Len(yielded) = 2
    /\ yielded[1].actual_size = sent[1]
    /\ yielded[2].actual_size < sent[2]
    /\ Len(dfs) = 2

\* Every request so far asked for the same size k.
AllSent(k) == \A i \in 1..Len(sent) : sent[i] = k

CeilDiv(n, k) == (n + k - 1) \div k

\* C4: fixed-size obedience for df_by_row.  When every request is the same
\* k, every partition but the last has actual_size = k, the last has the
\* remaining 1..k rows, and at end-of-stream exactly ceil(n / k) partitions
\* have been yielded.
C4_FixedSizeRow ==
    \A k \in 1..MaxSize :
        (AllSent(k) /\ sent # <<>> /\ gen.at \in {"L59", "L65", "done"}) =>
            LET n == shape0(dfs[1])
                m == Len(yielded)
            IN /\ \A j \in 1..(m - 1) : yielded[j].actual_size = k
               /\ m >= 1 => yielded[m].actual_size \in 1..k
               /\ gen.at \in {"L65", "done"} =>
                     /\ m = CeilDiv(n, k)
                     /\ m >= 1 => yielded[m].actual_size = n - k * (m - 1)

\* C4 witness: three rows in fixed partitions of two: sizes 2, 1.
C4_Witness ==
    /\ gen.at = "done"
    /\ AllSent(2)
    /\ ActualSizes = <<2, 1>>

\* C14: empty versus non-empty input for df_by_row.  With dataframes of
\* zero rows the first size request ends the stream and no partition is ever
\* yielded; with dataframes of at least one row the first size request is
\* answered by a partition, so at least one partition precedes the end of
\* the stream, whatever positive sizes are requested.
C14_EmptyVersusNonEmptyRow ==
    (gen.at \notin {"new", "error"}) =>
        /\ shape0(dfs[1]) = 0 =>
              /\ yielded = <<>>
              /\ Len(sent) <= 1
              /\ sent # <<>> => gen.at = "done"
        /\ shape0(dfs[1]) >= 1 =>
              /\ sent # <<>> => Len(yielded) >= 1
              /\ gen.at = "done" => Len(yielded) >= 1

\* C14 witness: two dataframes of zero rows, the stream ended by the first
\* size request.
C14_Witness ==
    /\ Len(dfs) = 2
    /\ shape0(dfs[1]) = 0
    /\ gen.at = "done"
    /\ Len(sent) = 1
    /\ yielded = <<>>

\* The rows not yet delivered before the k-th partition.
RemainingBefore(k) ==
    shape0(dfs[1]) - SumSeq([j \in 1..(k - 1) |-> yielded[j].actual_size])

\* C15: termination of the partition protocol for df_by_row.  Priming yields
\* nothing; every size request is answered by exactly one partition or by
\* the end of the stream, which answers the last request only; a dataframe
\* of n rows gives at most n partitions, so the stream ends within n + 1
\* requests; the partition yielded last before the end of the stream holds
\* all the rows that remained, and says so in actual_size.
C15_TerminationRow ==
    /\ gen.at \in {"new", "L50", "error"} => (sent = <<>> /\ yielded = <<>>)
    /\ gen.at \in {"L59", "L65"} => Len(yielded) = Len(sent)
    /\ gen.at = "done" => Len(yielded) + 1 = Len(sent)
    /\ gen.at \in {"L59", "L65", "done"} =>
          /\ Len(yielded) <= shape0(dfs[1])
          /\ Len(sent) <= shape0(dfs[1]) + 1
          /\ \A k \in 1..Len(yielded) :
                yielded[k].actual_size <= RemainingBefore(k)
    /\ (gen.at \in {"L65", "done"} /\ yielded # <<>>) =>
          LET m == Len(yielded)
          IN /\ yielded[m].actual_size = RemainingBefore(m)
             /\ \A d \in 1..Len(dfs) :
                   yielded[m].payload[d] =
                       SubSeq(dfs[d], shape0(dfs[d]) - RemainingBefore(m) + 1,
                              shape0(dfs[d]))

\* C15 witness: three rows delivered one by one, the stream ended by the
\* fourth request, the last partition asked for with a larger size.
C15_Witness ==
    /\ gen.at = "done"
    /\ shape0(dfs[1]) = 3
    /\ Len(yielded) = 3
    /\ Len(sent) = 4
    /\ sent[3] > 1
    /\ yielded[3].actual_size = 1

\* --------------------------------------------- SpecGroup: df_by_group alone
AllFrames == {Frame(ks) : ks \in SeqsUpTo(Keys, MaxRows)}

InitGroup ==
    /\ dfs \in SeqsUpTo(AllFrames, MaxDfs)
    /\ gen = NewRowGen
    /\ grp = NewGroupGen
    /\ sent = <<>>
    /\ yielded = <<>>
    /\ newArgs = DefaultNewArgs
    /\ obj = ParallelFunction_init(DefaultNewArgs)
    /\ InitCallVars

\* The consumer primes the generator: next(generator).
GroupPrime ==
    /\ grp.at = "new"
    /\ grp' = df_by_group_prime(grp, dfs)
    /\ UNCHANGED <<dfs, gen, sent, yielded, newVars, callVars>>

\* The consumer requests a partition of `size` rows: generator.send(size).
GroupSend(size) ==
    /\ GroupSuspended(grp)
    /\ LET r == df_by_group_send(grp, dfs, size)
       IN /\ grp' = r.gen
          /\ yielded' = yielded \o r.out
    /\ sent' = Append(sent, size)
    /\ UNCHANGED <<dfs, gen, newVars, callVars>>

NextGroup ==
    \/ GroupPrime
    \/ \E size \in 1..MaxSize : GroupSend(size)

SpecGroup == InitGroup /\ [][NextGroup]_vars

\* ---------------------------------------------- properties of df_by_group
\* The rows of the last group of a dataframe slice: groups are concatenated
\* in key order, so they are the rows that carry the key of the last row.
LastGroupSize(df) ==
    IF df = <<>> THEN 0
    ELSE Len(SelectSeq(df, LAMBDA row : row.key = df[Len(df)].key))

\* C3 as stated: every partition of df_by_group has 1 <= actual_size <= s
\* for the size s requested for it.
C3_SizeBoundGroup_Original ==
    \A k \in 1..Len(yielded) :
        /\ 1 <= yielded[k].actual_size
        /\ yielded[k].actual_size <= sent[k]

\* C3 as amended: the k-th partition answers the k-th size s sent; it holds
\* whole groups, so actual_size >= 1 and every dataframe slice has
\* actual_size rows, and it had fewer than s rows before its last group was
\* added: actual_size < s + (rows of its last group).  actual_size may
\* exceed s.
C3_SizeBoundGroup ==
    /\ Len(yielded) <= Len(sent)
    /\ grp.at \in {"L131", "L137"} => Len(yielded) = Len(sent)
    /\ \A k \in 1..Len(yielded) :
          /\ 1 <= yielded[k].actual_size
          /\ \A d \in 1..Len(dfs) :
                shape0(yielded[k].payload[d]) = yielded[k].actual_size
          /\ yielded[k].actual_size - LastGroupSize(yielded[k].payload[1]) < sent[k]

\* C3 witness: a partition larger than the size requested for it.
C3_Witness ==
    /\ Len(dfs) = 2
    /\ \E k \in 1..Len(yielded) :
          /\ yielded[k].actual_size > sent[k]
          /\ k > 1

\* The rows of dataframe d, group after group in groupby's order.
GroupRows(d) == ConcatAll(groupby(dfs[d]))

\* The rows of a dataframe slice that carry the key.
RowsOfKey(df, key) == SelectSeq(df, LAMBDA row : row.key = key)

\* The partitions that hold rows of dataframe d with the key.
PartitionsOfKey(d, key) ==
    {k \in 1..Len(yielded) : RowsOfKey(yielded[k].payload[d], key) # <<>>}

\* C16: partition cover for df_by_group.  For dataframes of equal row count
\* the partitions yielded so far hold, for each dataframe, its first
\* sum(actual_size) rows in group order, and a group is never spread over
\* two partitions; unless the group-size error was raised, at the end of
\* the stream sum(actual_size) is the row count and every group of every
\* dataframe is, whole, in exactly one partition: the positional pairing of
\* the groups drops none.
C16_PartitionCoverGroup ==
    (grp.at \in {"L131", "L137", "done"}) =>
        /\ SumSeq(ActualSizes) <= shape0(dfs[1])
        /\ \A d \in 1..Len(dfs) :
              /\ RowsDelivered(d) = SubSeq(GroupRows(d), 1, SumSeq(ActualSizes))
              /\ \A key \in Keys : \A k \in PartitionsOfKey(d, key) :
                    RowsOfKey(yielded[k].payload[d], key) = RowsOfKey(dfs[d], key)
        /\ grp.at = "done" =>
              /\ SumSeq(ActualSizes) = shape0(dfs[1])
              /\ \A d \in 1..Len(dfs) :
                    /\ RowsDelivered(d) = GroupRows(d)
                    /\ \A key \in Keys :
                          RowsOfKey(dfs[d], key) # <<>> =>
                              Cardinality(PartitionsOfKey(d, key)) = 1

\* C16 witness: two different dataframes of three rows and two groups each,
\* delivered whole in two partitions.
C16_Witness ==
    /\ grp.at = "done"
    /\ Len(dfs) = 2
    /\ dfs[1] # dfs[2]
    /\ shape0(dfs[1]) = 3
    /\ Len(groupby(dfs[1])) = 2
    /\ Len(yielded) = 2

\* The groups of dataframe d delivered before the k-th partition.
GroupsBefore(k, d) ==
    SumSeq([j \in 1..(k - 1) |-> Len(groupby(yielded[j].payload[d]))])

\* C17: whole-group chunking in df_by_group.  Every partition is, for each
\* dataframe, the concatenation of one or more whole groups, the ones that
\* follow the groups of the partition before; it has at least one row and
\* had fewer rows than the size requested for it before its last group was
\* added.  Every partition but the last, and every partition yielded inside
\* the loop, has at least the size requested for it; the partition yielded
\* when the groups run out is smaller than the size requested for it.
C17_WholeGroupChunking ==
    /\ Len(yielded) <= Len(sent)
    /\ \A k \in 1..Len(yielded) :
          /\ yielded[k].actual_size >= 1
          /\ yielded[k].actual_size - LastGroupSize(yielded[k].payload[1]) < sent[k]
          /\ k < Len(yielded) => yielded[k].actual_size >= sent[k]
          /\ \A d \in 1..Len(dfs) :
                LET part == yielded[k].payload[d]
                    n == Len(groupby(part))
                    before == GroupsBefore(k, d)
                IN /\ n >= 1
                   /\ shape0(part) = yielded[k].actual_size
                   /\ before + n <= Len(groupby(dfs[d]))
                   /\ groupby(part) = SubSeq(groupby(dfs[d]), before + 1, before + n)
                   /\ part = ConcatAll(groupby(part))
    /\ grp.at = "L131" =>
          yielded[Len(yielded)].actual_size >= sent[Len(yielded)]
    /\ grp.at = "L137" =>
          yielded[Len(yielded)].actual_size < sent[Len(yielded)]

\* C17 witness: a first partition of one group of two rows, larger than the
\* size 1 requested for it, and a last partition of one row, smaller than
\* the size 3 requested for it.
C17_Witness ==
    /\ grp.at = "done"
    /\ Len(dfs) = 2
    /\ ActualSizes = <<2, 1>>
    /\ sent[1] = 1
    /\ sent[2] = 3

\* ------------------ SpecCo: one generator made of arbitrary dataframes
\* The consumer makes one generator of the dataframes, df_by_row(*dfs) or
\* df_by_group(by)(*dfs), and drives it.
InitCo ==
    /\ dfs \in SeqsUpTo(AllFrames, MaxDfs)
    /\ gen = NewRowGen
    /\ grp = NewGroupGen
    /\ sent = <<>>
    /\ yielded = <<>>
    /\ newArgs = DefaultNewArgs
    /\ obj = ParallelFunction_init(DefaultNewArgs)
    /\ InitCallVars

\* next(df_by_row(*dfs))
CoRowPrime ==
    /\ grp.at = "new"
    /\ RowPrime

\* next(df_by_group(by)(*dfs))
CoGroupPrime ==
    /\ gen.at = "new"
    /\ GroupPrime

NextCo ==
    \/ CoRowPrime
    \/ CoGroupPrime
    \/ \E size \in 1..MaxSize : RowSend(size)
    \/ \E size \in 1..MaxSize : GroupSend(size)

SpecCo == InitCo /\ [][NextCo]_vars

\* No dataframe was given, or two of the dataframes differ in row count.
InvalidDfs ==
    \/ Len(dfs) < 1
    \/ \E i, j \in 1..Len(dfs) : shape0(dfs[i]) # shape0(dfs[j])

\* C13: mismatched co-partition.  When no dataframe is given or the row
\* counts of the dataframes are not all equal, priming either generator
\* raises: the generator never suspends, so no size request is accepted and
\* no partition is yielded.  When the row counts agree, priming raises
\* nothing.
C13_MismatchedCoPartition ==
    /\ InvalidDfs =>
          /\ gen.at \in {"new", "error"}
          /\ grp.at \in {"new", "error"}
          /\ sent = <<>>
          /\ yielded = <<>>
    /\ ~InvalidDfs =>
          /\ gen.at # "error"
          /\ grp.at = "error" => sent # <<>>

\* C13 witness: the generator of df_by_group, primed with dataframes of two
\* and three rows, has raised.
C13_Witness ==
    /\ Len(dfs) = 2
    /\ shape0(dfs[1]) = 2
    /\ shape0(dfs[2]) = 3
    /\ grp.at = "error"
    /\ sent = <<>>

\* ------------------------------------ SpecNew: constructing the object
InitNew ==
    /\ dfs = <<>>
    /\ gen = NewRowGen
    /\ grp = NewGroupGen
    /\ sent = <<>>
    /\ yielded = <<>>
    /\ newArgs \in NewInputs
    /\ obj = NoObject
    /\ InitCallVars

\* ParallelFunction(function, ...)
New ==
    /\ ~obj.built
    /\ obj.error = "none"
    /\ obj' = ParallelFunction_init(newArgs)
    /\ UNCHANGED <<genVars, newArgs, callVars>>

NextNew == New

SpecNew == InitNew /\ [][NextNew]_vars

HasPositionalOnly(sig) == \E i \in 1..Len(sig) : sig[i] = "POSITIONAL_ONLY"

\* C9: constructing a ParallelFunction for a function that declares a
\* positional-only parameter raises an error, also when the function
\* declares *args or **kwargs.
C9_PositionalOnlyRejected ==
    HasPositionalOnly(newArgs.sig) => ~obj.built

\* A size option that is set to a value __init__ accepts.
SizeIsSet(s) == s.kind \in {"int", "callable"}

\* __init__ has run: it built the object or raised.
Constructed == obj.built \/ obj.error # "none"

\* C11: mutually exclusive size options.  When initial_partition_size and
\* fixed_partition_size are both set, each to an integer or a callable, with
\* the split API or with the legacy partition_on/partition_with API,
\* __init__ raises and no object is built; when the arguments are otherwise
\* in order the error is the one about the two sizes.  With at most one of
\* them set, __init__ never raises that error.
C11_ExclusiveSizes ==
    Constructed =>
        /\ (SizeIsSet(newArgs.initial) /\ SizeIsSet(newArgs.fixed)) =>
              /\ ~obj.built
              /\ obj.error # "none"
              /\ (newArgs.partition_on = newArgs.partition_with
                    /\ ~(newArgs.partition_on /\ newArgs.split)) =>
                        obj.error = "both_sizes"
        /\ obj.error = "both_sizes" =>
              SizeIsSet(newArgs.initial) /\ SizeIsSet(newArgs.fixed)
        /\ (newArgs.initial = NoSize \/ newArgs.fixed = NoSize) =>
              obj.error # "both_sizes"

\* C11 witness: the legacy API with a callable initial size and an integer
\* fixed size, rejected for the two sizes.
C11_Witness ==
    /\ obj.error = "both_sizes"
    /\ ~obj.built
    /\ newArgs.partition_on
    /\ newArgs.partition_with
    /\ newArgs.initial.kind = "callable"
    /\ newArgs.fixed.kind = "int"

\* -------------------------------- Spec: invocations of a ParallelFunction
\* Invocations of the object made one after the other.
MaxCalls == 2
\* Largest number of rows of a dataframe passed to an invocation.
MaxCallRows == 2

CallFrames == {f \in RowFrames : shape0(f) <= MaxCallRows}

\* The objects Spec invokes: built through __init__ with the split API.
CallSizeOptions ==
    {NoSize, [kind |-> "int", value |-> 2], [kind |-> "callable", value |-> 1]}

CallNewInputs ==
    [sig : {<<"POSITIONAL_OR_KEYWORD", "POSITIONAL_OR_KEYWORD">>},
     split : {TRUE}, partition_on : {FALSE}, partition_with : {FALSE},
     initial : CallSizeOptions, fixed : CallSizeOptions]

Init ==
    /\ dfs = <<>>
    /\ gen = NewRowGen
    /\ grp = NewGroupGen
    /\ sent = <<>>
    /\ yielded = <<>>
    /\ newArgs \in CallNewInputs
    /\ obj = ParallelFunction_init(newArgs)
    /\ obj.built
    /\ InitCallVars

\* __call__(*args, **kwargs), lines 110-124: the caller's ambient backend
\* and stack decide between the sequential call of the function, which
\* returns at once, and the parallel path.
Call(current_backend, stk, fs) ==
    /\ pc = "idle"
    /\ calls < MaxCalls
    /\ calls' = calls + 1
    /\ ambient' = current_backend
    /\ stack' = stk
    /\ dfs' = fs
    /\ gen' = NewRowGen
    /\ sent' = <<>>
    /\ yielded' = <<>>
    /\ session' = NoSession
    /\ sizes' = [initial |-> 0, fixed |-> 0]
    /\ nested_backend' = "none"
    /\ wdefault' = "none"
    /\ tasks' = <<>>
    /\ combined' = <<>>
    /\ error' = "none"
    /\ outOfOrder' = FALSE
    /\ path' = call_path(current_backend, stk)
    /\ IF path' = "sequential"
       THEN /\ pc' = "returned"
            /\ result' = function(NP, fs)
            /\ count' = [NoCount EXCEPT !.function = 1]
       ELSE /\ pc' = "L128"
            /\ result' = "none"
            /\ count' = NoCount
    /\ UNCHANGED <<grp, newVars, observed>>

\* Line 128: self._function_signature.assign(args, kwargs), which may raise.
Bind(ok) ==
    /\ pc = "L128"
    /\ count' = [count EXCEPT !.assign = count.assign + 1]
    /\ IF ok THEN pc' = "L132" /\ error' = error
       ELSE pc' = "raised" /\ error' = "bind"
    /\ UNCHANGED <<genVars, newVars, calls, path, ambient, stack, session, sizes,
                   nested_backend, wdefault, tasks, combined, result, observed,
                   outOfOrder>>

\* Line 132: self.split(named_args), which may raise; it returns the
\* generator object, not yet started.
Split(ok) ==
    /\ pc = "L132"
    /\ count' = [count EXCEPT !.split = count.split + 1]
    /\ IF ok THEN pc' = "L134" /\ error' = error
       ELSE pc' = "raised" /\ error' = "splitter"
    /\ UNCHANGED <<genVars, newVars, calls, path, ambient, stack, session, sizes,
                   nested_backend, wdefault, tasks, combined, result, observed,
                   outOfOrder>>

\* Line 134: entering `with current_backend.session()`.  The workers of the
\* session either share the caller's ambient backend or have none.
OpenSession(wd) ==
    /\ pc = "L134"
    /\ wd \in {"none", ambient}
    /\ session' = [session EXCEPT !.state = "open", !.opened = session.opened + 1]
    /\ wdefault' = wd
    /\ pc' = "L136"
    /\ UNCHANGED <<genVars, newVars, calls, path, ambient, stack, sizes,
                   nested_backend, tasks, combined, result, error, count,
                   observed, outOfOrder>>

\* Lines 136-160: preload_value, which may raise, then the set-up of the lazy
\* partition and map stages: the user sizes, the estimator, nested_backend.
Preload(ok) ==
    /\ pc = "L136"
    /\ count' = [count EXCEPT !.preload_value = count.preload_value + 1]
    /\ IF ok
       THEN /\ pc' = "L164"
            /\ error' = error
            /\ sizes' = get_user_partition_sizes(obj)
            /\ nested_backend' =
                  IF ambient # "none" /\ allows_nested_tasks(ambient)
                  THEN ambient ELSE "none"
            /\ obj' = [obj EXCEPT !.estimator = stage_estimator(obj)]
       ELSE /\ pc' = "unwind"
            /\ error' = "preload"
            /\ UNCHANGED <<sizes, nested_backend, obj>>
    /\ UNCHANGED <<genVars, newArgs, calls, path, ambient, stack, session,
                   wdefault, tasks, combined, result, observed, outOfOrder>>

\* timed_partition primes the generator: next(partition_generator).
Prime ==
    /\ pc = "L164"
    /\ gen.at = "new"
    /\ gen' = df_by_row_prime(gen, dfs)
    /\ IF gen'.at = "error"
       THEN pc' = "unwind" /\ error' = "partition"
       ELSE pc' = pc /\ error' = error
    /\ UNCHANGED <<dfs, grp, sent, yielded, newVars, calls, path, ambient, stack,
                   session, sizes, nested_backend, wdefault, tasks, combined,
                   result, count, observed, outOfOrder>>

RemainingRows == shape0(dfs[1]) - SumSeq([k \in 1..Len(yielded) |-> yielded[k].actual_size])

\* timed_partition requests the next partition and parallel_timed_map
\* submits it to the session as a task of apply_function.
NextPartition ==
    /\ pc = "L164"
    /\ Suspended(gen)
    /\ \E size \in request_sizes(sizes, obj.estimator, sent = <<>>, RemainingRows) :
          LET r == df_by_row_send(gen, dfs, size)
          IN /\ gen' = r.gen
             /\ yielded' = yielded \o r.out
             /\ tasks' = IF r.out = <<>> THEN tasks
                         ELSE Append(tasks, [st |-> "queued", amb |-> wdefault,
                                             saved |-> "-", inner |-> "-",
                                             result |-> "none"])
             /\ sent' = Append(sent, size)
             /\ obj' = IF obj.estimator = NoEstimator THEN obj
                       ELSE [obj EXCEPT !.estimator.last = size]
    /\ UNCHANGED <<dfs, grp, newArgs, calls, pc, path, ambient, stack, session,
                   sizes, nested_backend, wdefault, combined, result, error,
                   count, observed, outOfOrder>>

TaskFrame ==
    <<genVars, newVars, calls, pc, path, ambient, stack, session, sizes,
      nested_backend, wdefault, combined, result, error, count, observed>>

\* Line 258-259: `with set_parallel_backend_context(backend)` when a handle
\* was passed; the task then runs the user function.
context_enter(t, backend) ==
    IF backend # "none"
    THEN [t EXCEPT !.st = "running", !.saved = t.amb, !.amb = backend]
    ELSE [t EXCEPT !.st = "running"]

\* A worker starts apply_function on task j (lines 251-259): with a backend
\* handle it installs the handle as the ambient backend of the task.
TaskStart(j) ==
    /\ pc = "L164"
    /\ tasks[j].st = "queued"
    /\ tasks' = [tasks EXCEPT ![j] = context_enter(tasks[j], nested_backend)]
    /\ UNCHANGED <<TaskFrame, outOfOrder>>

\* The user function of task j calls a ParallelFunction: lines 111-124 again,
\* in the task's context.
NestedCall(j) ==
    /\ pc = "L164"
    /\ tasks[j].st = "running"
    /\ tasks[j].inner = "-"
    /\ tasks' = [tasks EXCEPT ![j].inner = call_path(tasks[j].amb, TaskStack)]
    /\ UNCHANGED <<TaskFrame, outOfOrder>>

\* The context manager of line 259 restores the ambient backend it replaced.
context_exit_no_restore(t) == [t EXCEPT !.saved = "-"]

context_exit(t) ==
    IF t.saved = "-" THEN t ELSE [t EXCEPT !.amb = t.saved, !.saved = "-"]

\* The user function of task j returns (lines 260-264).
TaskEnd(j) ==
    /\ pc = "L164"
    /\ tasks[j].st = "running"
    /\ tasks' = [tasks EXCEPT ![j] =
          [context_exit(tasks[j]) EXCEPT
              !.st = "done", !.inner = "-",
              !.result = apply_function(NP, yielded[j].payload)]]
    /\ outOfOrder' = (outOfOrder \/ \E i \in 1..(j - 1) : tasks[i].st # "done")
    /\ UNCHANGED TaskFrame

\* The user function of task j raises.
TaskRaise(j) ==
    /\ pc = "L164"
    /\ tasks[j].st = "running"
    /\ tasks' = [tasks EXCEPT ![j] =
          [context_exit(tasks[j]) EXCEPT !.st = "failed", !.inner = "-"]]
    /\ UNCHANGED <<TaskFrame, outOfOrder>>

\* timed_combine_with pulls the next result, in submission order: the
\* estimator observes its trace and the combiner receives the result; the
\* exception of a failed task surfaces here.
Deliver ==
    /\ pc = "L164"
    /\ Len(combined) < Len(tasks)
    /\ LET j == Len(combined) + 1
       IN \/ /\ tasks[j].st = "done"
             /\ combined' = Append(combined, tasks[j].result)
             /\ obj' = IF obj.estimator = NoEstimator THEN obj
                       ELSE [obj EXCEPT !.estimator = observe(obj.estimator)]
             /\ observed' = IF obj.estimator = NoEstimator THEN observed
                            ELSE observed + 1
             /\ UNCHANGED <<pc, error>>
          \/ /\ tasks[j].st = "failed"
             /\ pc' = "unwind"
             /\ error' = "task"
             /\ UNCHANGED <<combined, obj, observed>>
    /\ UNCHANGED <<genVars, newArgs, calls, path, ambient, stack, session, sizes,
                   nested_backend, wdefault, tasks, result, count, outOfOrder>>

\* The result stream is exhausted: combine_with returns, or raises.
Combine(ok) ==
    /\ pc = "L164"
    /\ gen.at = "done"
    /\ Len(combined) = Len(tasks)
    /\ count' = [count EXCEPT !.combine_with = count.combine_with + 1]
    /\ IF ok
       THEN pc' = "exit" /\ result' = combine_with(combined) /\ error' = error
       ELSE pc' = "unwind" /\ error' = "combine" /\ result' = result
    /\ UNCHANGED <<genVars, newVars, calls, path, ambient, stack, session, sizes,
                   nested_backend, wdefault, tasks, combined, observed,
                   outOfOrder>>

\* Control leaves the with block of lines 134-164, normally or by the
\* exception, which reaches the caller afterwards.
ExitSession ==
    /\ pc \in {"exit", "unwind"}
    /\ session' = with_exit(session, error)
    /\ pc' = IF error = "none" THEN "L166" ELSE "raised"
    /\ UNCHANGED <<genVars, newVars, calls, path, ambient, stack, sizes,
                   nested_backend, wdefault, tasks, combined, result, error,
                   count, observed, outOfOrder>>

\* Lines 166-177: the trace is printed and exported, the result returned.
Return ==
    /\ pc = "L166"
    /\ pc' = "returned"
    /\ UNCHANGED <<genVars, newVars, calls, path, ambient, stack, session, sizes,
                   nested_backend, wdefault, tasks, combined, result, error,
                   count, observed, outOfOrder>>

\* The caller has the result or the exception: the frame of __call__ and
\* everything local to the invocation are gone; the object stays.
Caller ==
    /\ pc \in {"returned", "raised"}
    /\ dfs' = <<>>
    /\ gen' = NewRowGen
    /\ sent' = <<>>
    /\ yielded' = <<>>
    /\ pc' = "idle"
    /\ path' = "none"
    /\ ambient' = "none"
    /\ stack' = MainStack
    /\ session' = NoSession
    /\ sizes' = [initial |-> 0, fixed |-> 0]
    /\ nested_backend' = "none"
    /\ wdefault' = "none"
    /\ tasks' = <<>>
    /\ combined' = <<>>
    /\ result' = "none"
    /\ error' = "none"
    /\ count' = NoCount
    /\ outOfOrder' = FALSE
    /\ UNCHANGED <<grp, newVars, calls, observed>>

Next ==
    \/ \E b \in Backends, stk \in {MainStack, TaskStack},
          fs \in SeqsUpTo(CallFrames, MaxDfs) : Call(b, stk, fs)
    \/ \E ok \in BOOLEAN : Bind(ok)
    \/ \E ok \in BOOLEAN : Split(ok)
    \/ \E wd \in Backends : OpenSession(wd)
    \/ \E ok \in BOOLEAN : Preload(ok)
    \/ Prime
    \/ NextPartition
    \/ \E j \in 1..Len(tasks) : TaskStart(j)
    \/ \E j \in 1..Len(tasks) : NestedCall(j)
    \/ \E j \in 1..Len(tasks) : TaskEnd(j)
    \/ \E j \in 1..Len(tasks) : TaskRaise(j)
    \/ Deliver
    \/ Combine(TRUE)
    \/ Combine(FALSE)
    \/ ExitSession
    \/ Return
    \/ Caller

Spec == Init /\ [][Next]_vars

\* ----------------------------------------- properties of the invocations
\* The call was made from inside a running task.
InTask(stk) == \E i \in 1..Len(stk) : stk[i] = "apply_function"

\* The result of the user function on the non-partitioned argument merged
\* with the j-th partition generated.
PartitionResult(j) == [np |-> NP, part |-> yielded[j].payload]

\* C5: result equivalence.  On the parallel path the combiner receives the
\* results of the partitions in generation order, and the value returned is
\* the combiner applied to f(non_partitioned merged with p) for every
\* partition p generated, in generation order, whatever order the tasks
\* finished in.
C5_ResultEquivalence ==
    /\ \A j \in 1..Len(combined) : combined[j] = PartitionResult(j)
    /\ (path = "parallel" /\ pc \in {"exit", "L166", "returned"}) =>
          /\ gen.at = "done"
          /\ result = [combined |-> [j \in 1..Len(yielded) |-> PartitionResult(j)]]

\* C5 witness: a parallel invocation on two dataframes returned the combined
\* result of two partitions whose second task finished first.
C5_Witness ==
    /\ pc = "returned"
    /\ path = "parallel"
    /\ Len(yielded) = 2
    /\ Len(dfs) = 2
    /\ outOfOrder

\* C6: sequential fallback.  With no ambient backend the invocation calls
\* the function once on the original arguments and returns its result; it
\* binds nothing, splits nothing, opens no session, submits no task and does
\* not call the combiner.
C6_SequentialFallback ==
    (pc # "idle" /\ ambient = "none") =>
        /\ pc = "returned"
        /\ count = [function |-> 1, assign |-> 0, split |-> 0,
                    preload_value |-> 0, combine_with |-> 0]
        /\ result = [np |-> NP, part |-> dfs]
        /\ session = NoSession
        /\ gen.at = "new"
        /\ tasks = <<>>

\* C6 witness: a call from outside any task, no backend, two dataframes of
\* two rows.
C6_Witness ==
    /\ pc = "returned"
    /\ ambient = "none"
    /\ stack = MainStack
    /\ Len(dfs) = 2
    /\ shape0(dfs[1]) = 2

\* C7: nested-call safety.  A call from inside a task runs the function
\* sequentially, with no session, when the ambient backend is absent or
\* disallows nested tasks, and takes the parallel path when it allows them;
\* a call from outside a task with a backend takes the parallel path, which
\* splits, opens a session and combines.  The same holds of the call a task
\* of this invocation makes from its user function.
C7_NestedCallSafety ==
    /\ pc # "idle" =>
          /\ (InTask(stack) /\ ambient # "nesting") =>
                /\ path = "sequential"
                /\ pc = "returned"
                /\ count.function = 1
                /\ session = NoSession
          /\ (InTask(stack) /\ ambient = "nesting") => path = "parallel"
          /\ (~InTask(stack) /\ ambient # "none") => path = "parallel"
          /\ (path = "parallel" /\ pc = "returned") =>
                /\ count = [function |-> 0, assign |-> 1, split |-> 1,
                            preload_value |-> 1, combine_with |-> 1]
                /\ session = [state |-> "closed", opened |-> 1, closed |-> 1]
    /\ \A j \in 1..Len(tasks) :
          tasks[j].inner # "-" =>
              tasks[j].inner =
                  IF tasks[j].amb = "nesting" THEN "parallel" ELSE "sequential"

\* C7 witness: the outer call runs in parallel under a backend that
\* disallows nested tasks, and the call made inside its running task runs
\* sequentially.
C7_Witness ==
    /\ pc = "L164"
    /\ ambient = "nonnesting"
    /\ \E j \in 1..Len(tasks) :
          tasks[j].st = "running" /\ tasks[j].inner = "sequential"

\* C8 as stated: on every error path, the splitter's included, the session
\* has been closed exactly once when the exception reaches the caller.
C8_ResourceRelease_Original ==
    (pc = "raised" /\ error \in {"splitter", "partition", "task", "preload", "combine"}) =>
        /\ session.state = "closed"
        /\ session.closed = 1

\* C8 as amended: an exception raised once the session is open (by preload,
\* by producing a partition, by a worker task or by the combiner) reaches
\* the caller only after the session was closed, exactly once; an exception
\* of the splitter or of argument binding is raised before a session
\* exists, so none is opened and none is closed.
C8_ResourceRelease ==
    /\ session.closed <= session.opened
    /\ session.opened <= 1
    /\ pc = "unwind" => session = [state |-> "open", opened |-> 1, closed |-> 0]
    /\ pc = "raised" =>
          IF error \in {"preload", "partition", "task", "combine"}
          THEN session = [state |-> "closed", opened |-> 1, closed |-> 1]
          ELSE error \in {"bind", "splitter"} /\ session = NoSession

\* C8 witness: the exception of a worker task has reached the caller, the
\* session closed once.
C8_Witness ==
    /\ pc = "raised"
    /\ error = "task"
    /\ session.closed = 1

\* C10 as stated: every invocation starts its partition stage with an
\* estimator that has observed nothing.
C10_FreshEstimator_Original ==
    (pc = "L164" /\ sent = <<>> /\ obj.estimator # NoEstimator) =>
        obj.estimator.nobs = 0

\* C10 as amended: the estimator is made once, by __init__ (and only when
\* no fixed size is set), and every invocation uses that one: it holds the
\* observations of all invocations so far, so an invocation starts with
\* what the earlier ones recorded.
C10_SharedEstimator ==
    /\ (obj.estimator = NoEstimator) <=> (obj.fixed_partition_size.kind # "none")
    /\ obj.estimator # NoEstimator => obj.estimator.nobs = observed

\* C10 witness: the second invocation starts its partition stage with an
\* estimator that holds observations of the first.
C10_Witness ==
    /\ calls = 2
    /\ pc = "L164"
    /\ sent = <<>>
    /\ obj.estimator # NoEstimator
    /\ obj.estimator.nobs >= 2

\* fixed_partition_size of the object is set.
FixedSet == obj.fixed_partition_size.kind # "none"

\* C12: a fixed size disables the estimator.  An object built with
\* fixed_partition_size holds no estimator, in every invocation the partition
\* stage and the combine stage work with no estimator, no observation is
\* ever recorded, the sizes handed to the partition stage are no initial
\* size and the fixed value, and every size requested of the generator is
\* the fixed value.
C12_FixedDisablesEstimator ==
    FixedSet =>
        /\ obj.estimator = NoEstimator
        /\ observed = 0
        /\ obj.initial_partition_size = NoSize
        /\ pc \in {"L164", "exit", "L166"} =>
              sizes = [initial |-> 0, fixed |-> obj.fixed_partition_size.value]
        /\ \A i \in 1..Len(sent) : sent[i] = obj.fixed_partition_size.value

\* C12 witness: the second invocation of an object with a fixed size has
\* returned the combined result of two partitions.
C12_Witness ==
    /\ FixedSet
    /\ calls = 2
    /\ pc = "returned"
    /\ path = "parallel"
    /\ Len(yielded) = 2
    /\ Len(combined) = 2
    /\ Len(sent) = 3

\* C18: scoped ambient backend in a task.  The controller hands a backend
\* to apply_function only when the ambient backend allows nested tasks, and
\* then it hands that backend.  A task that was handed a backend has it as
\* its ambient backend exactly while the user function runs: before the
\* task starts and once the function has returned or raised, the worker's
\* ambient backend is the one it had.  A task that was handed no backend
\* runs with the worker's ambient backend unchanged.
C18_ScopedAmbientBackend ==
    /\ nested_backend # "none" =>
          /\ nested_backend = ambient
          /\ ambient = "nesting"
    /\ (pc = "L164" /\ ambient = "nesting") => nested_backend = "nesting"
    /\ \A j \in 1..Len(tasks) :
          /\ tasks[j].st = "running" =>
                tasks[j].amb = IF nested_backend # "none" THEN nested_backend
                               ELSE wdefault
          /\ tasks[j].st \in {"queued", "done", "failed"} =>
                tasks[j].amb = wdefault

\* C18 witness: on a worker with no ambient backend, a task whose function
\* raised has no ambient backend again while another task runs with the
\* backend it was handed.
C18_Witness ==
    /\ nested_backend = "nesting"
    /\ wdefault = "none"
    /\ \E i, j \in 1..Len(tasks) :
          /\ tasks[i].st = "running"
          /\ tasks[i].amb = "nesting"
          /\ tasks[j].st = "failed"
          /\ tasks[j].amb = "none"

\* One step of an invocation, as far as the order of its operations goes.
C19_Step ==
    /\ count'.assign > count.assign =>
          /\ count.split = 0
          /\ session = NoSession
    /\ count'.split > count.split =>
          /\ count.assign = 1
          /\ session = NoSession
    /\ session'.opened > session.opened =>
          /\ count.assign = 1
          /\ count.split = 1
          /\ count.preload_value = 0
          /\ error = "none"
    /\ count'.preload_value > count.preload_value =>
          /\ session.state = "open"
          /\ session' = session
          /\ tasks = <<>>
          /\ gen.at = "new"
    /\ Len(tasks') > Len(tasks) =>
          /\ count.preload_value = 1
          /\ session.state = "open"
    /\ count'.combine_with > count.combine_with =>
          /\ session.state = "open"
          /\ session' = session
    /\ session'.closed > session.closed =>
          (error = "none" => count.combine_with = 1)
    /\ (pc = "L166" /\ pc' = "returned") =>
          /\ session = [state |-> "closed", opened |-> 1, closed |-> 1]
          /\ count.combine_with = 1
    /\ (pc' = "raised" /\ error' \in {"bind", "splitter"}) =>
          /\ session' = NoSession
          /\ count'.preload_value = 0
          /\ tasks' = <<>>
          /\ gen'.at = "new"

\* C19: ordering of the parallel path.  Within an invocation, binding and
\* then the splitter run while no session exists; the session is opened
\* after both; preload runs in the open session before any partition is
\* requested or submitted; the combiner runs in the open session; the trace
\* is printed and exported and the result returned only once the session is
\* closed; when binding or the splitter raises, no session was opened and
\* nothing was preloaded or submitted.
C19_OrderingParallelPath == [][C19_Step]_vars

\* C19 witness: a parallel invocation has returned after preload, two
\* submitted partitions, the combiner and the closing of its session.
C19_Witness ==
    /\ pc = "returned"
    /\ path = "parallel"
    /\ count = [function |-> 0, assign |-> 1, split |-> 1,
                preload_value |-> 1, combine_with |-> 1]
    /\ Len(tasks) = 2
    /\ session.state = "closed"

====
